---- MODULE Spec2Model ----
(***************************************************************************)
(* The capture lifecycle of AudioVisualizer (src/script.js): the fields of *)
(* the object, the media streams and audio contexts it has acquired, the   *)
(* list of pending requestAnimationFrame callbacks, and the startListening *)
(* activations suspended at one of their two awaits.                       *)
(*                                                                         *)
(* JavaScript runs every handler to completion, so one action is one       *)
(* handler, or the part of startListening between two awaits. Nothing in   *)
(* the class keeps a handler from being called in any state, so every      *)
(* handler is enabled whenever its own code lets it run.                   *)
(*                                                                         *)
(* What the platform decides is a nondeterministic choice: whether         *)
(* getDisplayMedia grants, whether the granted stream carries an audio     *)
(* track, whether the AudioContext constructor throws or gives a suspended *)
(* or a running context, whether resume() resolves or rejects (also after  *)
(* the context was closed while the promise was pending), and whether      *)
(* createMediaStreamSource throws.                                         *)
(***************************************************************************)
EXTENDS Integers, Sequences, FiniteSets, TLC

\* Bounds of the model.
MaxStreams == 2     \* streams granted by getDisplayMedia over a run
MaxContexts == 2    \* audio contexts constructed over a run
MaxCalls == 2       \* startListening activations suspended at the same time
MaxRequests == 3    \* frame requests pending at the same time
BufLen == 2         \* buckets of a frequency snapshot (bufferLength)
MaxControlSessions == 1 \* streams granted, and calls suspended at the same time,
                        \* in a run in which the controls are used
MaxControlRequests == 2 \* frame requests pending at the same time in such a run
MaxFrames == 2          \* frames counted on a particle set (the count stops there)
MaxWidth == 3           \* canvas width and height, in grid units
MaxSpeed == 1           \* a particle's speed along an axis, in grid units per frame
MaxLen == 5             \* snapshot lengths tried besides the analyser's own

\* initParticles fills the particle set with this many particles.
ParticleCount == 200

\* The slots of drawBars and the segments of drawCircular.
BarCount == 128
SegmentCount == 180

\* analyser.frequencyBinCount, half of the fftSize startListening sets.
FrequencyBinCount == 1024

VARIABLES
    stream,         \* this.stream: 0 (null) or an index into streams
    audioContext,   \* this.audioContext: 0 (null) or an index into contexts
    analyser,       \* this.analyser: 0 (null) or the context that created it
    source,         \* this.source: 0 (null) or the stream it reads
    isListening,    \* this.isListening
    animationId,    \* this.animationId: 0 (null) or a frame request id
    streams,        \* the streams granted so far, each with its tracks
    contexts,       \* the audio contexts constructed so far, each with its state
    requests,       \* the pending requestAnimationFrame callbacks
    calls,          \* the startListening activations
    lastOp,         \* history: the handler that ran last, with its outcome
    lastCall,       \* history: the activation the last step ran, if it ran one
    pulled,         \* history: what getByteFrequencyData read in the last step
    closed,         \* history: the promise close() returned in the last step
    stops,          \* history: the stopListening calls in a row that led here (at most 2)
    mode,           \* this.mode
    theme,          \* this.theme
    sensitivity,    \* this.sensitivity, in tenths
    smoothing,      \* this.smoothing, in tenths
    analyserSmoothing,  \* this.analyser.smoothingTimeConstant, in tenths (0 without analyser)
    particles,      \* this.particles: how many there are, and how many frames have moved them
    frame,          \* history: what animate() pulled and drew in the last step
    probe           \* a renderer's computation taken alone: its inputs and its result

vars == <<stream, audioContext, analyser, source, isListening, animationId,
          streams, contexts, requests, calls, lastOp, lastCall, pulled, closed,
          stops, mode, theme, sensitivity, smoothing, analyserSmoothing,
          particles, frame, probe>>

\* The settings the controls write.
config == <<mode, theme, sensitivity, smoothing>>

Calls == 1..MaxCalls

\* An activation slot that holds no suspended call.
NoCall == [pc |-> "free", madeIdle |-> FALSE, s |-> 0, c |-> 0]

\* The outcomes of startListening that end in its catch block.
FailOps == {"denied", "noAudio", "ctxFailed", "resumeFailed", "wireFailed"}

\* The failures that happen after getDisplayMedia has granted a stream.
LateFailOps == FailOps \ {"denied"}

\* The two frame callbacks.
FrameOps == {"idleFrame", "animateFrame"}

\* The modes and the renderer animate() dispatches each to.
Modes == {"bars", "wave", "circular", "particles"}
Renderer(m) ==
    CASE m = "bars" -> <<"drawBars">>
      [] m = "wave" -> <<"drawWave">>
      [] m = "circular" -> <<"drawCircular">>
      [] m = "particles" -> <<"drawParticles">>
      [] OTHER -> <<>>

\* The frequency snapshots taken here, each of BufLen byte values: silence,
\* sound in the last bucket only, and sound in every bucket.
Snapshots ==
    {[i \in 1..BufLen |-> 0],
     [i \in 1..BufLen |-> IF i = BufLen THEN 200 ELSE 0],
     [i \in 1..BufLen |-> 200]}

\* dataArray.some(v => v > 0)
HasAudio(snap) == \E i \in DOMAIN snap : snap[i] > 0

\* A frame body that draws the advisory in place of the renderer.
AnimateBodyAdvisoryInstead(m, snap) ==
    [snapshot |-> snap,
     ops |-> <<"getByteFrequencyData", "fade">>
             \o (IF HasAudio(snap) THEN Renderer(m) ELSE <<"drawNoAudioIndicator">>)]

\* The body of animate() after its guard, for mode m and the pulled snapshot
\* snap: what it does to the canvas, in order.
AnimateBody(m, snap) ==
    [snapshot |-> snap,
     ops |-> <<"getByteFrequencyData", "fade">> \o Renderer(m)
             \o (IF HasAudio(snap) THEN <<>> ELSE <<"drawNoAudioIndicator">>)]

\* No animate() body ran.
NoFrame == [snapshot |-> <<>>, ops |-> <<>>]

\* The history variables, set by every handler. pull tells whether animate()
\* got past its guard in this step; when it read an analyser the snapshot is
\* whatever the analyser delivered.
Hist(op, call, pull, cl) ==
    /\ lastOp' = op
    /\ lastCall' = call
    /\ pulled' = pull
    /\ closed' = cl
    /\ stops' = IF op # "stopListening" THEN 0 ELSE IF stops = 0 THEN 1 ELSE 2
    /\ IF pull \in {"ok", "closed"}
       THEN \E snap \in Snapshots : frame' = AnimateBody(mode, snap)
       ELSE frame' = NoFrame

\* initParticles(): the set is replaced by ParticleCount new particles.
InitParticles == [count |-> ParticleCount, frames |-> 0]

\* drawParticles() moves every particle of the set.
DrawParticles(ps) ==
    IF ps.count = 0 THEN ps
    ELSE [ps EXCEPT !.frames = IF @ < MaxFrames THEN @ + 1 ELSE @]

\* requestAnimationFrame returns an id that no pending request has and that
\* differs from the id the object still holds.
NewId(reqs) ==
    CHOOSE i \in 1..(MaxRequests + 1) :
        /\ i # animationId
        /\ \A r \in reqs : r.id # i
        /\ \A j \in 1..(i - 1) : j = animationId \/ \E r \in reqs : r.id = j

\* cancelAnimationFrame(id): the request with that id leaves the list.
CancelAnimationFrame(reqs, id) == {r \in reqs : r.id # id}

\* A stop that reaches the audio tracks only (getAudioTracks for getTracks).
StopAudioTracksOnly(st) ==
    [st EXCEPT !.audio = IF st.audio = "none" THEN "none" ELSE "ended"]

\* track.stop() on every track of a stream (stream.getTracks()).
StopTracks(st) ==
    [audio |-> IF st.audio = "none" THEN "none" ELSE "ended",
     video |-> IF st.video = "none" THEN "none" ELSE "ended"]

\* track.stop() on the video tracks of a stream.
StopVideoTracks(st) ==
    [st EXCEPT !.video = IF st.video = "none" THEN "none" ELSE "ended"]

\* What analyser.getByteFrequencyData meets, for analyser an and contexts cs.
Pull(an, cs) ==
    IF an = 0 THEN "null"
    ELSE IF cs[an] = "closed" THEN "closed"
    ELSE "ok"

Init ==
    /\ stream = 0
    /\ audioContext = 0
    /\ analyser = 0
    /\ source = 0
    /\ isListening = FALSE
    /\ animationId = 0
    /\ streams = <<>>
    /\ contexts = <<>>
    /\ requests = {[id |-> 1, cb |-> "drawIdleState"]}
    /\ calls = [c \in Calls |-> NoCall]
    /\ lastOp = "init"
    /\ lastCall = NoCall
    /\ pulled = "none"
    /\ closed = "none"
    /\ stops = 0
    /\ mode = "bars"
    /\ theme = "neon"
    /\ sensitivity = 15
    /\ smoothing = 8
    /\ analyserSmoothing = 0
    /\ particles = [count |-> 0, frames |-> 0]
    /\ frame = NoFrame
    /\ probe = [op |-> "none"]

\* The number of activations awaiting the grant.
AwaitingGrant == Cardinality({c \in Calls : calls[c].pc = "grant"})

\* startListening up to its first await: getDisplayMedia is requested.
StartListening ==
    /\ \E c \in Calls : calls[c].pc = "free"
    /\ Len(streams) + AwaitingGrant < MaxStreams
    /\ Len(contexts) + AwaitingGrant < MaxContexts
    /\ LET c == CHOOSE k \in Calls :
                    /\ calls[k].pc = "free"
                    /\ \A j \in 1..(k - 1) : calls[j].pc # "free"
       IN calls' = [calls EXCEPT ![c] =
                        [pc |-> "grant", madeIdle |-> ~isListening, s |-> 0, c |-> 0]]
    /\ UNCHANGED <<stream, audioContext, analyser, source, isListening,
                   animationId, streams, contexts, requests>>
    /\ UNCHANGED <<config, analyserSmoothing, particles, probe>>
    /\ Hist("startListening", NoCall, "none", "none")

\* getDisplayMedia rejects: this.stream is not assigned, the catch block runs.
GrantRejected(c) ==
    /\ calls[c].pc = "grant"
    /\ calls' = [calls EXCEPT ![c] = NoCall]
    /\ UNCHANGED <<stream, audioContext, analyser, source, isListening,
                   animationId, streams, contexts, requests>>
    /\ UNCHANGED <<config, analyserSmoothing, particles, probe>>
    /\ Hist("denied", calls[c], "none", "none")

\* Lines 130-155 of startListening, run with this.stream = st and
\* this.audioContext = ac over the streams ss and contexts cs: the analyser is
\* created, the source is wired (wireOk: createMediaStreamSource does not
\* throw), and on success isListening is set and animate() is called.
Wire(c, call, st, ac, ss, cs, wireOk) ==
    /\ stream' = st
    /\ audioContext' = ac
    /\ streams' = ss
    /\ contexts' = cs
    /\ analyser' = ac
    /\ analyserSmoothing' = smoothing
    /\ calls' = [calls EXCEPT ![c] = NoCall]
    /\ UNCHANGED <<config, probe>>
    /\ IF wireOk /\ ss[st].audio # "none"
       THEN /\ Cardinality(requests) < MaxRequests
            /\ source' = st
            /\ isListening' = TRUE
            /\ particles' = IF mode = "particles"
                            THEN DrawParticles(InitParticles)
                            ELSE particles
            /\ animationId' = NewId(requests)
            /\ requests' = requests \cup {[id |-> NewId(requests), cb |-> "animate"]}
            /\ Hist("started", call, Pull(ac, cs), "none")
       ELSE /\ UNCHANGED <<source, isListening, animationId, requests, particles>>
            /\ Hist("wireFailed", call, "none", "none")

\* getDisplayMedia resolves with a stream of one video track and, with
\* hasAudio, one audio track; startListening runs to its next await or to its
\* end. ctx is what constructing the AudioContext does: it throws, or gives a
\* suspended or a running context.
GrantResolved(c, hasAudio, ctx, wireOk) ==
    /\ calls[c].pc = "grant"
    /\ LET s == Len(streams) + 1
           k == Len(contexts) + 1
           granted == [audio |-> IF hasAudio THEN "live" ELSE "none", video |-> "live"]
           call == [calls[c] EXCEPT !.s = s]
       IN IF ~hasAudio
          THEN /\ stream' = s
               /\ streams' = Append(streams, granted)
               /\ calls' = [calls EXCEPT ![c] = NoCall]
               /\ UNCHANGED <<audioContext, analyser, source, isListening,
                              animationId, contexts, requests>>
               /\ UNCHANGED <<config, analyserSmoothing, particles, probe>>
               /\ Hist("noAudio", call, "none", "none")
          ELSE IF ctx = "throws"
          THEN /\ stream' = s
               /\ streams' = Append(streams, StopVideoTracks(granted))
               /\ calls' = [calls EXCEPT ![c] = NoCall]
               /\ UNCHANGED <<audioContext, analyser, source, isListening,
                              animationId, contexts, requests>>
               /\ UNCHANGED <<config, analyserSmoothing, particles, probe>>
               /\ Hist("ctxFailed", call, "none", "none")
          ELSE IF ctx = "suspended"
          THEN /\ stream' = s
               /\ streams' = Append(streams, StopVideoTracks(granted))
               /\ audioContext' = k
               /\ contexts' = Append(contexts, "suspended")
               /\ calls' = [calls EXCEPT ![c] = [call EXCEPT !.pc = "resume", !.c = k]]
               /\ UNCHANGED <<analyser, source, isListening, animationId, requests>>
               /\ UNCHANGED <<config, analyserSmoothing, particles, probe>>
               /\ Hist("awaitResume", [call EXCEPT !.c = k], "none", "none")
          ELSE Wire(c, [call EXCEPT !.c = k], s, k,
                    Append(streams, StopVideoTracks(granted)),
                    Append(contexts, "running"), wireOk)

\* audioContext.resume() resolves: the context runs unless it was closed in
\* the meantime, and startListening continues with the fields as they are now.
ResumeResolved(c, wireOk) ==
    /\ calls[c].pc = "resume"
    /\ Wire(c, calls[c], stream, audioContext, streams,
            [contexts EXCEPT ![calls[c].c] = IF @ = "closed" THEN "closed" ELSE "running"],
            wireOk)

\* audioContext.resume() rejects: the catch block runs.
ResumeRejected(c) ==
    /\ calls[c].pc = "resume"
    /\ calls' = [calls EXCEPT ![c] = NoCall]
    /\ UNCHANGED <<stream, audioContext, analyser, source, isListening,
                   animationId, streams, contexts, requests>>
    /\ UNCHANGED <<config, analyserSmoothing, particles, probe>>
    /\ Hist("resumeFailed", calls[c], "none", "none")

\* A stopListening that does not call drawIdleState().
StopListeningWithoutIdle ==
    /\ isListening' = FALSE
    /\ streams' = IF stream # 0
                  THEN [streams EXCEPT ![stream] = StopTracks(@)]
                  ELSE streams
    /\ contexts' = IF audioContext # 0
                   THEN [contexts EXCEPT ![audioContext] = "closed"]
                   ELSE contexts
    /\ requests' = IF animationId # 0
                   THEN CancelAnimationFrame(requests, animationId)
                   ELSE requests
    /\ UNCHANGED <<stream, audioContext, analyser, source, animationId, calls>>
    /\ UNCHANGED <<config, analyserSmoothing, particles, probe>>
    /\ Hist("stopListening", NoCall, "none",
            IF audioContext = 0 THEN "none"
            ELSE IF contexts[audioContext] = "closed" THEN "rejected"
            ELSE "resolved")

\* stopListening, with the drawIdleState() call that ends it.
StopListening ==
    LET kept == IF animationId # 0
                THEN CancelAnimationFrame(requests, animationId)
                ELSE requests
    IN /\ Cardinality(kept) < MaxRequests
       /\ isListening' = FALSE
       /\ streams' = IF stream # 0
                     THEN [streams EXCEPT ![stream] = StopTracks(@)]
                     ELSE streams
       /\ contexts' = IF audioContext # 0
                      THEN [contexts EXCEPT ![audioContext] = "closed"]
                      ELSE contexts
       /\ requests' = kept \cup {[id |-> NewId(kept), cb |-> "drawIdleState"]}
       /\ UNCHANGED <<stream, audioContext, analyser, source, animationId, calls>>
       /\ UNCHANGED <<config, analyserSmoothing, particles, probe>>
       /\ Hist("stopListening", NoCall, "none",
               IF audioContext = 0 THEN "none"
               ELSE IF contexts[audioContext] = "closed" THEN "rejected"
               ELSE "resolved")

\* A frame runs the animate callback r.
AnimateFrame(r) ==
    /\ r \in requests
    /\ r.cb = "animate"
    /\ IF ~isListening
       THEN /\ requests' = requests \ {r}
            /\ UNCHANGED <<animationId, particles>>
            /\ Hist("animateFrame", NoCall, "none", "none")
       ELSE /\ animationId' = NewId(requests \ {r})
            /\ requests' = (requests \ {r})
                            \cup {[id |-> NewId(requests \ {r}), cb |-> "animate"]}
            /\ particles' = IF mode = "particles" /\ analyser # 0
                            THEN DrawParticles(particles)
                            ELSE particles
            /\ Hist("animateFrame", NoCall, Pull(analyser, contexts), "none")
    /\ UNCHANGED <<stream, audioContext, analyser, source, isListening,
                   streams, contexts, calls>>
    /\ UNCHANGED <<config, analyserSmoothing, probe>>

\* drawIdleState with the test of line 460 inverted: it asks for the next
\* frame only while listening.
IdleFrameInverted(r) ==
    /\ r \in requests
    /\ r.cb = "drawIdleState"
    /\ requests' = IF isListening
                   THEN (requests \ {r})
                         \cup {[id |-> NewId(requests \ {r}), cb |-> "drawIdleState"]}
                   ELSE requests \ {r}
    /\ UNCHANGED <<stream, audioContext, analyser, source, isListening,
                   animationId, streams, contexts, calls>>
    /\ UNCHANGED <<config, analyserSmoothing, particles, probe>>
    /\ Hist("idleFrame", NoCall, "none", "none")

\* A frame runs the drawIdleState callback r.
IdleFrame(r) ==
    /\ r \in requests
    /\ r.cb = "drawIdleState"
    /\ requests' = IF ~isListening
                   THEN (requests \ {r})
                         \cup {[id |-> NewId(requests \ {r}), cb |-> "drawIdleState"]}
                   ELSE requests \ {r}
    /\ UNCHANGED <<stream, audioContext, analyser, source, isListening,
                   animationId, streams, contexts, calls>>
    /\ UNCHANGED <<config, analyserSmoothing, particles, probe>>
    /\ Hist("idleFrame", NoCall, "none", "none")

Next ==
    \/ StartListening
    \/ \E c \in Calls : GrantRejected(c)
    \/ \E c \in Calls, hasAudio \in BOOLEAN, wireOk \in BOOLEAN,
          ctx \in {"throws", "suspended", "running"} :
            GrantResolved(c, hasAudio, ctx, wireOk)
    \/ \E c \in Calls, wireOk \in BOOLEAN : ResumeResolved(c, wireOk)
    \/ \E c \in Calls : ResumeRejected(c)
    \/ StopListening
    \/ \E r \in requests : AnimateFrame(r)
    \/ \E r \in requests : IdleFrame(r)

Spec == Init /\ [][Next]_vars

(***************************************************************************)
(* The properties checked of the lifecycle.                                *)
(***************************************************************************)

\* The streams that still have a live track, and the contexts not closed.
LiveStreams == {s \in DOMAIN streams : "live" \in {streams[s].audio, streams[s].video}}
OpenContexts == {k \in DOMAIN contexts : contexts[k] # "closed"}

\* The pending requests of each loop.
AnimateRequests == {r \in requests : r.cb = "animate"}
IdleRequests == {r \in requests : r.cb = "drawIdleState"}

\* C1: there is never more than one active CaptureSession: at most one
\* acquired stream has unstopped tracks and at most one audio context is open.
C1_OneActiveSession ==
    /\ Cardinality(LiveStreams) <= 1
    /\ Cardinality(OpenContexts) <= 1

\* C2: at most one per-frame loop request is pending in total, the idle loop
\* and the capturing loop counted together.
C2_AtMostOneFrameRequest == Cardinality(requests) <= 1

\* C3: when stopListening returns the system is Idle, no animate request is
\* pending, every track of every acquired stream is stopped and every audio
\* context that was created is closed.
C3_StopReleasesEverything ==
    lastOp = "stopListening" =>
        /\ ~isListening
        /\ AnimateRequests = {}
        /\ LiveStreams = {}
        /\ OpenContexts = {}

\* The lifecycle state of the object: every field but the list of pending
\* frame requests.
Lifecycle == <<stream, audioContext, analyser, source, isListening, animationId,
               streams, contexts, calls>>

\* Idle with no active stream: isListening is false, the request the object
\* holds in animationId is not pending, every track of the held stream is
\* stopped and the held audio context is closed.
IdleNoActiveStream ==
    /\ ~isListening
    /\ \A r \in requests : r.id # animationId
    /\ stream # 0 => "live" \notin {streams[stream].audio, streams[stream].video}
    /\ audioContext # 0 => contexts[audioContext] = "closed"

C5_FailedStartLeavesIdle ==
    (lastOp \in FailOps /\ lastCall.madeIdle) =>
        (~isListening /\ AnimateRequests = {})

\* C6: when startListening fails after the stream was acquired, every track
\* of that stream is stopped and the audio context the call created, if any,
\* is closed by the time the call completes.
C6_LateFailureTearsDown ==
    lastOp \in LateFailOps =>
        /\ lastCall.s \notin LiveStreams
        /\ lastCall.c # 0 => lastCall.c \notin OpenContexts

\* C7: whenever a capturing-loop frame callback passes the isListening guard
\* and pulls frequency data, the analyser is there and its audio context has
\* not been closed.
C7_FramePullsLiveAnalyser ==
    lastOp = "animateFrame" => pulled \in {"none", "ok"}

\* C8, as the specification states it: no frame callback, drawIdleState or
\* animate, executes while a startListening is awaiting the capture grant.
C8_NoFrameWhileAwaitingGrant ==
    ~(lastOp \in FrameOps /\ AwaitingGrant > 0)

\* C8, amended: awaiting the grant suspends startListening only. The request
\* cancels and schedules no frame request and leaves isListening as it is, and
\* while a call awaits the grant with the system Idle a drawIdleState request
\* is pending, so the idle loop keeps running.
C8_OnlyStartListeningSuspended ==
    [][/\ lastOp' = "startListening" =>
            UNCHANGED <<requests, isListening, animationId>>
       /\ (AwaitingGrant' > 0 /\ ~isListening') => IdleRequests' # {}]_vars

\* C8, its case: an idle frame has just run while a call awaits the grant,
\* and has asked for the next frame.
C8_Witness ==
    /\ AwaitingGrant > 0
    /\ lastOp = "idleFrame"
    /\ ~isListening
    /\ IdleRequests # {}

\* C9: no idle frame is drawn while the state is Capturing.
C9_IdleFrameOnlyWhileIdle ==
    lastOp = "idleFrame" => ~isListening

LifecycleStep ==
    /\ Next
    /\ Len(streams') <= MaxControlSessions
    /\ Cardinality(requests') <= MaxControlRequests
    /\ Cardinality({c \in Calls : calls'[c].pc # "free"}) <= MaxControlSessions

\* The values the smoothing slider is moved to, in tenths.
SmoothingValues == {2, 8}

\* A smoothing handler that writes the field and not the live analyser.
SetSmoothingFieldOnly(v) ==
    /\ smoothing' = v
    /\ UNCHANGED <<mode, theme, sensitivity, analyserSmoothing, particles, probe>>
    /\ UNCHANGED <<Lifecycle, requests>>
    /\ Hist("setSmoothing", NoCall, "none", "none")

\* The smoothing slider's input handler.
SetSmoothing(v) ==
    /\ smoothing' = v
    /\ analyserSmoothing' = IF analyser # 0 THEN v ELSE analyserSmoothing
    /\ UNCHANGED <<mode, theme, sensitivity, particles, probe>>
    /\ UNCHANGED <<Lifecycle, requests>>
    /\ Hist("setSmoothing", NoCall, "none", "none")

NextSmoothing ==
    \/ LifecycleStep
    \/ \E v \in SmoothingValues : SetSmoothing(v)

SpecSmoothing == Init /\ [][NextSmoothing]_vars

\* C11: in every Capturing state the analyser animate() reads has the
\* configured smoothing; a smoothing change sets it in the same step and
\* touches neither the lifecycle nor the frame requests (no stop/start
\* cycle), and a session started after a change begins with the changed value.
C11_SmoothingPropagatesLive ==
    [][/\ isListening' => (analyser' # 0 /\ analyserSmoothing' = smoothing')
       /\ lastOp' = "setSmoothing" => UNCHANGED <<Lifecycle, requests>>
       /\ lastOp' = "started" => analyserSmoothing' = smoothing']_vars

\* C11, its case: the slider was moved off its default while Capturing and
\* the live analyser has the new value.
C11_Witness ==
    /\ isListening
    /\ lastOp = "setSmoothing"
    /\ smoothing = 2
    /\ analyserSmoothing = 2

\* C11, its other case: a session has started after the slider was moved
\* while Idle.
C11_WitnessStartedAfterChange ==
    /\ lastOp = "started"
    /\ smoothing = 2
    /\ analyserSmoothing = 2

\* The mode buttons clicked together with the other controls (one renderer
\* that draws from the snapshot alone and the one that keeps particles), the
\* themes the theme buttons select here, and the sensitivities the slider is
\* moved to (in tenths).
ModeButtons == {"circular", "particles"}
ThemeButtons == {"neon", "sunset"}
SensitivityValues == {15, 30}

\* A mode handler that seeds the particles only when there are none.
SetModeSeedingOnce(m) ==
    /\ mode' = m
    /\ particles' = IF m = "particles" /\ particles.count = 0
                    THEN InitParticles
                    ELSE particles
    /\ UNCHANGED <<theme, sensitivity, smoothing, analyserSmoothing, probe>>
    /\ UNCHANGED <<Lifecycle, requests>>
    /\ Hist("setMode", NoCall, "none", "none")

\* A mode button's click handler.
SetMode(m) ==
    /\ mode' = m
    /\ particles' = IF m = "particles" THEN InitParticles ELSE particles
    /\ UNCHANGED <<theme, sensitivity, smoothing, analyserSmoothing, probe>>
    /\ UNCHANGED <<Lifecycle, requests>>
    /\ Hist("setMode", NoCall, "none", "none")

\* A theme handler that also reseeds the particles.
SetThemeReseeding(th) ==
    /\ theme' = th
    /\ particles' = InitParticles
    /\ UNCHANGED <<mode, sensitivity, smoothing, analyserSmoothing, probe>>
    /\ UNCHANGED <<Lifecycle, requests>>
    /\ Hist("setTheme", NoCall, "none", "none")

\* A theme button's click handler.
SetTheme(th) ==
    /\ theme' = th
    /\ UNCHANGED <<mode, sensitivity, smoothing, analyserSmoothing, particles, probe>>
    /\ UNCHANGED <<Lifecycle, requests>>
    /\ Hist("setTheme", NoCall, "none", "none")

\* The sensitivity slider's input handler.
SetSensitivity(v) ==
    /\ sensitivity' = v
    /\ UNCHANGED <<mode, theme, smoothing, analyserSmoothing, particles, probe>>
    /\ UNCHANGED <<Lifecycle, requests>>
    /\ Hist("setSensitivity", NoCall, "none", "none")

NextMode ==
    \/ LifecycleStep
    \/ \E m \in Modes : SetMode(m)

SpecMode == Init /\ [][NextMode]_vars

\* The canvas operations of a frame, as a set.
FrameOpsDone(f) == {f.ops[i] : i \in DOMAIN f.ops}

\* C12: every selection of particle mode leaves exactly ParticleCount fresh
\* particles, every successful startListening with particle mode selected
\* leaves ParticleCount fresh particles that its own first frame has moved
\* once, and whenever the mode is particles the set holds ParticleCount
\* particles, so that drawParticles never runs on an empty set.
C12_ParticleModeSeeds ==
    [][/\ (lastOp' = "setMode" /\ mode' = "particles") => particles' = InitParticles
       /\ (lastOp' = "started" /\ mode' = "particles")
            => particles' = DrawParticles(InitParticles)
       /\ mode' = "particles" => particles'.count = ParticleCount
       /\ "drawParticles" \in FrameOpsDone(frame')
            => particles'.count = ParticleCount]_vars

\* The four renderers.
Renderers == {"drawBars", "drawWave", "drawCircular", "drawParticles"}

\* C16: a frame that got past the guard of animate() has pulled the snapshot
\* first, then faded the canvas, once, then called one renderer, the one of
\* the current mode, and no other; after that it has drawn the no-audio
\* advisory if and only if every value of the snapshot is zero.
C16_FrameStepsInOrder ==
    frame # NoFrame =>
        /\ Len(frame.ops) \in {3, 4}
        /\ frame.ops[1] = "getByteFrequencyData"
        /\ frame.ops[2] = "fade"
        /\ <<frame.ops[3]>> = Renderer(mode)
        /\ Cardinality({i \in DOMAIN frame.ops : frame.ops[i] = "fade"}) = 1
        /\ Cardinality({i \in DOMAIN frame.ops : frame.ops[i] \in Renderers}) = 1
        /\ Len(frame.ops) = 4 <=> \A i \in DOMAIN frame.snapshot : frame.snapshot[i] = 0
        /\ Len(frame.ops) = 4 => frame.ops[4] = "drawNoAudioIndicator"

\* C16, its case: a frame in wave mode pulled a silent snapshot and drew the
\* wave and then the advisory.
C16_Witness ==
    /\ lastOp = "animateFrame"
    /\ mode = "wave"
    /\ frame.ops = <<"getByteFrequencyData", "fade", "drawWave", "drawNoAudioIndicator">>

\* C12, its case: particle mode was selected again while Capturing, over a set
\* that frames had moved, and the set is fresh again.
C12_Witness ==
    /\ lastOp = "setMode"
    /\ mode = "particles"
    /\ isListening
    /\ particles = InitParticles
    /\ stream # 0

NextControls ==
    \/ LifecycleStep
    \/ \E m \in ModeButtons : SetMode(m)
    \/ \E th \in ThemeButtons : SetTheme(th)
    \/ \E v \in SensitivityValues : SetSensitivity(v)

SpecControls == Init /\ [][NextControls]_vars

\* C18: a mode, theme or sensitivity change, in either state, changes no
\* lifecycle field (isListening, the held stream, context and analyser among
\* them) and leaves the pending frame requests as they are; a theme or
\* sensitivity change leaves the particle set as it is, too.
C18_ControlsLeaveLifecycle ==
    [][/\ lastOp' \in {"setMode", "setTheme", "setSensitivity"}
            => UNCHANGED <<Lifecycle, requests>>
       /\ lastOp' \in {"setTheme", "setSensitivity"}
            => UNCHANGED particles]_vars

\* C18, its case: the theme was changed while Capturing in particle mode,
\* over particles that a frame had moved.
C18_Witness ==
    /\ lastOp = "setTheme"
    /\ theme = "sunset"
    /\ isListening
    /\ mode = "particles"
    /\ particles.frames > 0

\* C18, its other case: the sensitivity was changed while Idle.
C18_WitnessIdle ==
    /\ lastOp = "setSensitivity"
    /\ sensitivity = 30
    /\ ~isListening

(***************************************************************************)
(* Frame delivery. The browser runs every pending requestAnimationFrame    *)
(* callback at its next frame, so each callback that stays pending is      *)
(* eventually run: weak fairness for each frame request.                   *)
(***************************************************************************)

AllRequests == [id : 1..(MaxRequests + 1), cb : {"animate", "drawIdleState"}]

FairFrames ==
    \A r \in AllRequests : WF_vars(IdleFrame(r)) /\ WF_vars(AnimateFrame(r))

SpecFair == Init /\ [][LifecycleStep]_vars /\ FairFrames

\* In every state the loop of the state has a frame request pending.
LoopPending ==
    /\ ~isListening => IdleRequests # {}
    /\ isListening => AnimateRequests # {}

\* C17: the display never stalls. In every state, Idle has an idle request
\* pending and Capturing has an animate request pending; and with frames
\* delivered fairly, after every stopListening and after every failed
\* startListening that leaves the system Idle an idle frame is drawn unless
\* capture starts first, and after every start a capturing frame is drawn
\* unless capture stops first.
C17_DisplayNeverStalls ==
    /\ []LoopPending
    /\ (lastOp = "stopListening") ~> (lastOp = "idleFrame" \/ isListening)
    /\ (lastOp \in FailOps /\ ~isListening) ~> (lastOp = "idleFrame" \/ isListening)
    /\ (lastOp = "started") ~> (lastOp = "animateFrame" \/ ~isListening)

\* C17, its case: a session was stopped and the idle loop has drawn a frame
\* since, with its next frame requested.
C17_Witness ==
    /\ ~isListening
    /\ lastOp = "idleFrame"
    /\ stream # 0
    /\ streams[stream].audio = "ended"
    /\ IdleRequests # {}

(***************************************************************************)
(* The computations of the renderers, each taken alone. Coordinates are    *)
(* points of an integer grid; a frame moves a particle by its velocity     *)
(* times 1 + 3 * freqValue, a factor between 1 and 4. What a computation   *)
(* gives does not depend on what was computed before it, so each one is    *)
(* followed from the state in which nothing has been computed yet: a       *)
(* particle from its seeding through resizes and frames, the index and     *)
(* colour computations one after another.                                  *)
(***************************************************************************)

ParticleOps == {"initParticles", "resizeCanvas", "drawParticles"}

Sizes == 0..MaxWidth
Speeds == (0 - MaxSpeed)..MaxSpeed
Factors == 1..4

\* A wrap that tests the lower edge only.
WrapLowerEdgeOnly(x, limit) == IF x < 0 THEN limit ELSE x

\* The two wrap statements of drawParticles for one coordinate:
\* if (x < 0) x = limit; if (x > limit) x = 0;
Wrap(x, limit) ==
    LET low == IF x < 0 THEN limit ELSE x
    IN IF low > limit THEN 0 ELSE low

\* resizeCanvas(), on a window of w by h.
ResizeCanvas(w, h) ==
    /\ probe' = [probe EXCEPT !.op = "resizeCanvas", !.width = w, !.height = h]
    /\ UNCHANGED <<Lifecycle, requests, lastOp, lastCall, pulled, closed, stops,
                   config, analyserSmoothing, particles, frame>>

\* One particle of initParticles() on a canvas of w by h: Math.random() is
\* below 1, so the position is below the size (and 0 on an empty canvas).
SeedParticle(w, h, x, y, vx, vy) ==
    /\ x < w \/ x = 0
    /\ y < h \/ y = 0
    /\ probe' = [op |-> "initParticles", width |-> w, height |-> h,
                 x |-> x, y |-> y, vx |-> vx, vy |-> vy,
                 movedX |-> x, movedY |-> y]
    /\ UNCHANGED <<Lifecycle, requests, lastOp, lastCall, pulled, closed, stops,
                   config, analyserSmoothing, particles, frame>>

\* One particle of one drawParticles() frame: it moves by its velocity times
\* the factor f and wraps. movedX and movedY keep where the move took it.
MoveParticle(f) ==
    /\ LET mx == probe.x + probe.vx * f
           my == probe.y + probe.vy * f
       IN probe' = [probe EXCEPT !.op = "drawParticles",
                                 !.movedX = mx, !.movedY = my,
                                 !.x = Wrap(mx, probe.width),
                                 !.y = Wrap(my, probe.height)]
    /\ UNCHANGED <<Lifecycle, requests, lastOp, lastCall, pulled, closed, stops,
                   config, analyserSmoothing, particles, frame>>

\* The snapshot lengths: the analyser's own and a few short ones.
SnapshotLengths == (1..MaxLen) \cup {FrequencyBinCount}

\* An index that rounds up instead of down.
SampleIndexRoundedUp(i, len, count) == (i * len + count - 1) \div count

\* Math.floor(i * this.bufferLength / barCount)
SampleIndex(i, len, count) == (i * len) \div count

\* The loop of drawBars and of drawCircular: slot i of count slots, from 0,
\* reads the snapshot at SampleIndex.
SampledIndices(len, count) == [j \in 1..count |-> SampleIndex(j - 1, len, count)]

DrawBars(len) ==
    /\ probe' = [op |-> "drawBars", len |-> len, count |-> BarCount,
                 read |-> SampledIndices(len, BarCount)]
    /\ UNCHANGED <<Lifecycle, requests, lastOp, lastCall, pulled, closed, stops,
                   config, analyserSmoothing, particles, frame>>

DrawCircular(len) ==
    /\ probe' = [op |-> "drawCircular", len |-> len, count |-> SegmentCount,
                 read |-> SampledIndices(len, SegmentCount)]
    /\ UNCHANGED <<Lifecycle, requests, lastOp, lastCall, pulled, closed, stops,
                   config, analyserSmoothing, particles, frame>>

RECURSIVE GCD(_, _)
GCD(a, b) == IF b = 0 THEN a ELSE GCD(b, a % b)

RECURSIVE IsPowerOfTwo(_)
IsPowerOfTwo(n) == n = 1 \/ (n > 1 /\ n % 2 = 0 /\ IsPowerOfTwo(n \div 2))

\* Math.floor((index / this.particles.length) * this.bufferLength): the
\* quotient is rounded to a double before it is multiplied. Where index * len
\* is a multiple of n and index / n is not a binary fraction, the product can
\* come out just below the whole number, and the floor is then one less.
FreqIndices(index, n, len) ==
    LET whole == (index * len) \div n
    IN IF (index * len) % n = 0 /\ ~IsPowerOfTwo(n \div GCD(n, index))
       THEN {whole - 1, whole}
       ELSE {whole}

\* The freqIndex of particle index, of n particles, in a drawParticles() frame.
DrawParticlesIndex(index, n, len) ==
    /\ \E fi \in FreqIndices(index, n, len) :
          probe' = [op |-> "freqIndex", len |-> len, count |-> n,
                    index |-> index, read |-> fi]
    /\ UNCHANGED <<Lifecycle, requests, lastOp, lastCall, pulled, closed, stops,
                   config, analyserSmoothing, particles, frame>>

\* this.themes, each value tagged with what it is.
Themes ==
    [neon |-> [kind |-> "list", items |-> <<"#ff006e", "#8338ec", "#3a86ff", "#00f5d4">>],
     sunset |-> [kind |-> "list", items |-> <<"#f72585", "#ff7b00", "#ffd000", "#ff006e">>],
     ocean |-> [kind |-> "list", items |-> <<"#00b4d8", "#0077b6", "#023e8a", "#48cae4">>],
     forest |-> [kind |-> "list", items |-> <<"#2d6a4f", "#40916c", "#95d5b2", "#74c69d">>],
     fire |-> [kind |-> "list", items |-> <<"#ff0000", "#ff7700", "#ffdd00", "#ff4400">>]]

\* this.themes is an object literal: what it has no property of its own for,
\* it inherits from Object.prototype. Three of the inherited members.
ObjectPrototype ==
    [constructor |-> [kind |-> "function", items |-> <<>>],
     toString |-> [kind |-> "function", items |-> <<>>],
     __proto__ |-> [kind |-> "object", items |-> <<>>]]

Undefined == [kind |-> "undefined", items |-> <<>>]

\* this.themes[name]
ThemesGet(name) ==
    IF name \in DOMAIN Themes THEN Themes[name]
    ELSE IF name \in DOMAIN ObjectPrototype THEN ObjectPrototype[name]
    ELSE Undefined

\* getColors() with this.theme = name: this.themes[name] || this.themes.neon
GetColors(name) ==
    IF ThemesGet(name).kind # "undefined" THEN ThemesGet(name) ELSE Themes["neon"]

\* The theme names tried: the registered ones, two that nothing defines, and
\* the three inherited ones.
ThemeNames == DOMAIN Themes \cup {"", "custom"} \cup DOMAIN ObjectPrototype

CallGetColors(name) ==
    /\ probe' = [op |-> "getColors", theme |-> name, colors |-> GetColors(name)]
    /\ UNCHANGED <<Lifecycle, requests, lastOp, lastCall, pulled, closed, stops,
                   config, analyserSmoothing, particles, frame>>

NextRender ==
    \/ /\ probe.op = "none"
       /\ \E w, h, x, y \in Sizes : \E vx, vy \in Speeds :
             SeedParticle(w, h, x, y, vx, vy)
    \/ /\ probe.op \in ParticleOps
       /\ \/ \E w, h \in Sizes : ResizeCanvas(w, h)
          \/ \E f \in Factors : MoveParticle(f)
    \/ /\ probe.op \notin ParticleOps
       /\ \/ \E len \in SnapshotLengths : DrawBars(len)
          \/ \E len \in SnapshotLengths : DrawCircular(len)
          \/ \E len \in SnapshotLengths : \E index \in 0..(ParticleCount - 1) :
                DrawParticlesIndex(index, ParticleCount, len)
          \/ \E name \in ThemeNames : CallGetColors(name)

SpecRender == Init /\ [][NextRender]_vars

\* What the wrap statements do at the four edges: a particle moved below 0
\* is put on the far edge, one moved beyond the far edge is put on 0.
EdgeResets ==
    /\ probe.movedX < 0 => probe.x = probe.width
    /\ probe.movedX > probe.width => probe.x = 0
    /\ probe.movedY < 0 => probe.y = probe.height
    /\ probe.movedY > probe.height => probe.y = 0

\* C13 as stated: after the wrap of a particle-mode frame the particle lies
\* in [0, width) x [0, height) of the current canvas, and the four edges
\* reset as EdgeResets says.
C13_PositionsHalfOpen ==
    probe.op = "drawParticles" =>
        /\ 0 <= probe.x /\ probe.x < probe.width
        /\ 0 <= probe.y /\ probe.y < probe.height
        /\ EdgeResets

\* C13, amended: after the wrap of a particle-mode frame the particle lies
\* in [0, width] x [0, height] of the current canvas, both edges included,
\* and the four edges reset as EdgeResets says.
C13_PositionsWithinClosedCanvas ==
    probe.op = "drawParticles" =>
        /\ 0 <= probe.x /\ probe.x <= probe.width
        /\ 0 <= probe.y /\ probe.y <= probe.height
        /\ EdgeResets

\* C13, its case: a frame moved a particle below x = 0 on a canvas that is
\* not empty, and the wrap put it on x = width.
C13_Witness ==
    /\ probe.op = "drawParticles"
    /\ probe.width > 0
    /\ probe.movedX < 0
    /\ probe.x = probe.width

\* C14: drawBars and drawCircular read exactly as many slots as they have
\* bars, slot i reading index floor(i * L / B) of a snapshot of length L, and
\* every index read, the freqIndex of a particle included, is at least 0
\* and at most L - 1.
C14_SampledIndicesInRange ==
    /\ probe.op \in {"drawBars", "drawCircular"} =>
          /\ Len(probe.read) = probe.count
          /\ \A j \in 1..probe.count :
                /\ probe.read[j] = ((j - 1) * probe.len) \div probe.count
                /\ 0 <= probe.read[j]
                /\ probe.read[j] <= probe.len - 1
    /\ probe.op = "freqIndex" =>
          /\ 0 <= probe.read
          /\ probe.read <= probe.len - 1

\* C14, its case: the last of the 128 bars has read the analyser's snapshot,
\* at an index short of its end.
C14_Witness ==
    /\ probe.op = "drawBars"
    /\ probe.len = FrequencyBinCount
    /\ probe.read[BarCount] = FrequencyBinCount - 8

\* C15: getColors gives a list that is not empty: the theme's own four
\* colours for a registered name, the neon list for every other name.
C15_GetColorsFallsBack ==
    probe.op = "getColors" =>
        /\ probe.colors.kind = "list"
        /\ Len(probe.colors.items) > 0
        /\ probe.theme \in DOMAIN Themes =>
              probe.colors = Themes[probe.theme] /\ Len(probe.colors.items) = 4
        /\ probe.theme \notin DOMAIN Themes => probe.colors = Themes["neon"]

====
